---- MODULE Spec2Model ----
(***************************************************************************)
(* The user-account database of package user: the record model (String,   *)
(* parseUser), the row matcher (User.lookUp), the lookups (LookupInUser,   *)
(* LookupUser, LookupUID) and the mutations (User.Add, DelUser) on the     *)
(* account file, run by concurrent callers.                                *)
(*                                                                         *)
(* Text is modelled as a sequence of one-character strings, so that        *)
(* formatting and parsing are computed character by character.            *)
(***************************************************************************)
EXTENDS Integers, Sequences, FiniteSets, TLC

(***************************************************************************)
(* Bounds of the model.                                                    *)
(***************************************************************************)
\* Number of concurrent callers.
NumProcs == 2
\* Calls each caller makes.
MaxCalls == 2
\* Storage-layer failures injected in one run.
MaxFaults == 2
\* Rows of the files the pure lookups are applied to.
MaxRows == 3
\* Configured identifier ranges (config.login.*): [UID_MIN, UID_MIN + RangeSpan]
\* for normal accounts, [SYS_UID_MIN, SYS_UID_MIN + RangeSpan] for system ones.
UID_MIN == 10
SYS_UID_MIN == 1
RangeSpan == 1

UID_MAX == UID_MIN + RangeSpan
SYS_UID_MAX == SYS_UID_MIN + RangeSpan

(***************************************************************************)
(* Field flags of the account file (userField).                           *)
(***************************************************************************)
U_NAME == 1
U_PASSWD == 2
U_UID == 4
U_GID == 8
U_GECOS == 16
U_DIR == 32
U_SHELL == 64
U_ALL == 128

\* field & bit != 0, for a single-bit flag.
HasBit(field, bit) == (field \div bit) % 2 = 1

(***************************************************************************)
(* Text.                                                                   *)
(***************************************************************************)
DigitChars == <<"0", "1", "2", "3", "4", "5", "6", "7", "8", "9">>

IsDigit(c) == \E i \in 1..10 : DigitChars[i] = c

DigitVal(c) == (CHOOSE i \in 1..10 : DigitChars[i] = c) - 1

RECURSIVE FormatUint(_)
FormatUint(n) ==
    IF n < 10 THEN <<DigitChars[n + 1]>>
    ELSE FormatUint(n \div 10) \o <<DigitChars[(n % 10) + 1]>>

\* The %d verb of fmt.Sprintf.
Itoa(n) == IF n < 0 THEN <<"-">> \o FormatUint(-n) ELSE FormatUint(n)

\* The value of the digits s[i..], after the digits that gave acc.
RECURSIVE AtoiDigits(_, _, _)
AtoiDigits(s, i, acc) ==
    IF i > Len(s) THEN [ok |-> TRUE, val |-> acc]
    ELSE IF ~IsDigit(s[i]) THEN [ok |-> FALSE, val |-> 0]
    ELSE AtoiDigits(s, i + 1, acc * 10 + DigitVal(s[i]))

\* strconv.Atoi: an optional sign and at least one decimal digit.  The texts of
\* the model are far shorter than the 19 digits at which it reports a range
\* error.
Atoi(s) ==
    IF s = << >> THEN [ok |-> FALSE, val |-> 0]
    ELSE LET first == IF s[1] \in {"+", "-"} THEN 2 ELSE 1
             r == AtoiDigits(s, first, 0)
         IN  IF first > Len(s) \/ ~r.ok THEN [ok |-> FALSE, val |-> 0]
             ELSE [ok |-> TRUE, val |-> IF s[1] = "-" THEN -r.val ELSE r.val]

\* The one element of a singleton.  The({ F(x) : x \in {e} }) is F(e) with e
\* evaluated once.
The(S) == CHOOSE x \in S : TRUE

\* The fields of s[start..], of which s[start..(i - 1)] holds no separator.
RECURSIVE SplitFrom(_, _, _, _)
SplitFrom(s, sep, start, i) ==
    IF i > Len(s) THEN <<SubSeq(s, start, Len(s))>>
    ELSE IF s[i] = sep
    THEN <<SubSeq(s, start, i - 1)>> \o SplitFrom(s, sep, i + 1, i + 1)
    ELSE SplitFrom(s, sep, start, i + 1)

\* strings.Split(s, sep) for a one-character separator.
Split(s, sep) == SplitFrom(s, sep, 1, 1)

(***************************************************************************)
(* Errors.  One record shape for all of them: the kind, the file and field *)
(* name a fieldError or RequiredError carries, the row or directory, and   *)
(* the identifier of an IdUsedError.                                       *)
(***************************************************************************)
Err(e, file, f, s, n) == [e |-> e, file |-> file, f |-> f, s |-> s, n |-> n]

Nil == Err("nil", "", "", << >>, 0)
ErrRow == Err("ErrRow", "", "", << >>, 0)
ErrNoFound == Err("ErrNoFound", "", "", << >>, 0)
ErrExist == Err("ErrExist", "", "", << >>, 0)
\* An error of the storage layer (open, read, write, close).
ErrIO == Err("io", "", "", << >>, 0)
\* The errors of db.file.WriteString and of db.close.
ErrWrite == Err("io", "", "write", << >>, 0)
ErrClose == Err("io", "", "close", << >>, 0)
\* The allocator found no free identifier in the range ending at max.
IdRangeError(max) == Err("IdRangeError", "", "", << >>, max)
fieldError(file, row, f) == Err("fieldError", file, f, row, 0)
RequiredError(f) == Err("RequiredError", "", f, << >>, 0)
HomeError(home) == Err("HomeError", "", "", home, 0)
IdUsedError(id) == Err("IdUsedError", "", "", << >>, id)
\* A run-time panic that carries no error value of the package: an index out
\* of range or a failed type assertion.
RuntimePanic(what) == Err("runtime", "", what, << >>, 0)

_USER_FILE == "passwd"

(***************************************************************************)
(* The record model.                                                       *)
(***************************************************************************)
User(name, password, uid, gid, gecos, dir, shell, sys) ==
    [Name |-> name, password |-> password, UID |-> uid, GID |-> gid,
     Gecos |-> gecos, Dir |-> dir, Shell |-> shell, IsOfSystem |-> sys]

\* The zero value of the struct.
ZeroUser == User(<< >>, << >>, 0, 0, << >>, << >>, << >>, FALSE)

\* A *User: nil, or a pointer to v.
NilPtr == [nil |-> TRUE, v |-> ZeroUser]
Ptr(v) == [nil |-> FALSE, v |-> v]

UserString(u) ==
    u.Name \o <<":">> \o u.password \o <<":">> \o Itoa(u.UID) \o <<":">>
        \o Itoa(u.GID) \o <<":">> \o u.Gecos \o <<":">> \o u.Dir \o <<":">>
        \o u.Shell \o <<"\n">>

parseUserShortRow(row) ==
    The({ IF Len(fields) < 7 THEN [user |-> NilPtr, err |-> ErrRow]
          ELSE LET uid == Atoi(fields[3])
                   gid == Atoi(fields[4])
               IN  IF ~uid.ok
                   THEN [user |-> NilPtr,
                         err |-> fieldError(_USER_FILE, row, "UID")]
                   ELSE IF ~gid.ok
                   THEN [user |-> NilPtr,
                         err |-> fieldError(_USER_FILE, row, "GID")]
                   \* TODO: set field IsOfSystem
                   ELSE [user |-> Ptr(User(fields[1], fields[2], uid.val,
                                           gid.val, fields[5], fields[6],
                                           fields[7], FALSE)),
                         err |-> Nil]
        : fields \in {Split(row, ":")} })

parseUser(row) ==
    The({ IF Len(fields) # 7 THEN [user |-> NilPtr, err |-> ErrRow]
          ELSE LET uid == Atoi(fields[3])
                   gid == Atoi(fields[4])
               IN  IF ~uid.ok
                   THEN [user |-> NilPtr,
                         err |-> fieldError(_USER_FILE, row, "UID")]
                   ELSE IF ~gid.ok
                   THEN [user |-> NilPtr,
                         err |-> fieldError(_USER_FILE, row, "GID")]
                   \* TODO: set field IsOfSystem
                   ELSE [user |-> Ptr(User(fields[1], fields[2], uid.val,
                                           gid.val, fields[5], fields[6],
                                           fields[7], FALSE)),
                         err |-> Nil]
        : fields \in {Split(row, ":")} })

(***************************************************************************)
(* The row matcher, User.lookUp.  Its outcome is a match with the record   *)
(* built from the row, no match (nil), or a panic.                         *)
(***************************************************************************)
StrValue(s) == [t |-> "str", s |-> s, i |-> 0]
IntValue(i) == [t |-> "int", s |-> << >>, i |-> i]

NoMatch == [kind |-> "nil", user |-> ZeroUser, err |-> Nil]
Match(v) == [kind |-> "match", user |-> v, err |-> Nil]
Panic(e) == [kind |-> "panic", user |-> ZeroUser, err |-> e]

\* One branch of the chain `BIT&_field != 0 && allField[k] == value.(string)`:
\* "t" or "f", or the panic of the index or of the type assertion.
StrBranch(allField, field, value, bit, k) ==
    IF ~HasBit(field, bit) THEN "f"
    ELSE IF Len(allField) < k THEN "index"
    ELSE IF value.t # "str" THEN "type"
    ELSE IF allField[k] = value.s THEN "t" ELSE "f"

\* One branch of the chain `BIT&_field != 0 && intField[k] == value.(int)`.
IntBranch(field, value, bit, n) ==
    IF ~HasBit(field, bit) THEN "f"
    ELSE IF value.t # "int" THEN "type"
    ELSE IF n = value.i THEN "t" ELSE "f"

UserLookUpGidAsUid(line, field, value) ==
    The({
        IF Len(allField) < 3 THEN Panic(RuntimePanic("index"))
        ELSE IF ~Atoi(allField[3]).ok
        THEN Panic(fieldError(_USER_FILE, line, "UID"))
        ELSE IF Len(allField) < 4 THEN Panic(RuntimePanic("index"))
        ELSE IF ~Atoi(allField[4]).ok
        THEN Panic(fieldError(_USER_FILE, line, "GID"))
        ELSE
        LET uidField == Atoi(allField[3]).val
            gidField == Atoi(allField[4]).val
            isField ==
                IF StrBranch(allField, field, value, U_NAME, 1) # "f"
                THEN StrBranch(allField, field, value, U_NAME, 1)
                ELSE IF StrBranch(allField, field, value, U_PASSWD, 2) # "f"
                THEN StrBranch(allField, field, value, U_PASSWD, 2)
                ELSE IF IntBranch(field, value, U_UID, uidField) # "f"
                THEN IntBranch(field, value, U_UID, uidField)
                ELSE IF IntBranch(field, value, U_GID, uidField) # "f"
                THEN IntBranch(field, value, U_GID, uidField)
                ELSE IF StrBranch(allField, field, value, U_GECOS, 5) # "f"
                THEN StrBranch(allField, field, value, U_GECOS, 5)
                ELSE IF StrBranch(allField, field, value, U_DIR, 6) # "f"
                THEN StrBranch(allField, field, value, U_DIR, 6)
                ELSE IF StrBranch(allField, field, value, U_SHELL, 7) # "f"
                THEN StrBranch(allField, field, value, U_SHELL, 7)
                ELSE IF HasBit(field, U_ALL) THEN "t" ELSE "f"
        IN  IF isField \in {"index", "type"} THEN Panic(RuntimePanic(isField))
            ELSE IF isField = "f" THEN NoMatch
            ELSE IF Len(allField) < 7 THEN Panic(RuntimePanic("index"))
            ELSE Match(User(allField[1], allField[2], uidField, gidField,
                            allField[5], allField[6], allField[7], FALSE))
        : allField \in {Split(line, ":")} })

UserLookUp(line, field, value) ==
    The({
        IF Len(allField) < 3 THEN Panic(RuntimePanic("index"))
        ELSE IF ~Atoi(allField[3]).ok
        THEN Panic(fieldError(_USER_FILE, line, "UID"))
        ELSE IF Len(allField) < 4 THEN Panic(RuntimePanic("index"))
        ELSE IF ~Atoi(allField[4]).ok
        THEN Panic(fieldError(_USER_FILE, line, "GID"))
        ELSE
        LET uidField == Atoi(allField[3]).val
            gidField == Atoi(allField[4]).val
            isField ==
                IF StrBranch(allField, field, value, U_NAME, 1) # "f"
                THEN StrBranch(allField, field, value, U_NAME, 1)
                ELSE IF StrBranch(allField, field, value, U_PASSWD, 2) # "f"
                THEN StrBranch(allField, field, value, U_PASSWD, 2)
                ELSE IF IntBranch(field, value, U_UID, uidField) # "f"
                THEN IntBranch(field, value, U_UID, uidField)
                ELSE IF IntBranch(field, value, U_GID, gidField) # "f"
                THEN IntBranch(field, value, U_GID, gidField)
                ELSE IF StrBranch(allField, field, value, U_GECOS, 5) # "f"
                THEN StrBranch(allField, field, value, U_GECOS, 5)
                ELSE IF StrBranch(allField, field, value, U_DIR, 6) # "f"
                THEN StrBranch(allField, field, value, U_DIR, 6)
                ELSE IF StrBranch(allField, field, value, U_SHELL, 7) # "f"
                THEN StrBranch(allField, field, value, U_SHELL, 7)
                ELSE IF HasBit(field, U_ALL) THEN "t" ELSE "f"
        IN  IF isField \in {"index", "type"} THEN Panic(RuntimePanic(isField))
            ELSE IF isField = "f" THEN NoMatch
            ELSE IF Len(allField) < 7 THEN Panic(RuntimePanic("index"))
            ELSE Match(User(allField[1], allField[2], uidField, gidField,
                            allField[5], allField[6], allField[7], FALSE))
        : allField \in {Split(line, ":")} })

(***************************************************************************)
(* The scan of a file.  The reader, the generic lookUp and the allocator   *)
(* are not among the package's files at hand; they follow the package's    *)
(* specification (sections 4.2 and 4.4).                                   *)
(***************************************************************************)
\* The rows of a file in file order, each without its line terminator.
Lines(file) ==
    The({ IF parts[Len(parts)] = << >> THEN SubSeq(parts, 1, Len(parts) - 1)
          ELSE parts
        : parts \in {Split(file, "\n")} })

\* The scan from row i on, acc being the matches of the rows before it.
RECURSIVE ScanRows(_, _, _, _, _, _)
ScanRows(lines, i, field, value, n, acc) ==
    IF i > Len(lines) THEN [entries |-> acc, err |-> Nil]
    ELSE The({
        IF r.kind = "panic" THEN [entries |-> << >>, err |-> r.err]
        ELSE IF r.kind = "match" /\ n > 0 /\ Len(acc) + 1 = n
        THEN [entries |-> Append(acc, r.user), err |-> Nil]
        ELSE ScanRows(lines, i + 1, field, value, n,
                      IF r.kind = "match" THEN Append(acc, r.user) ELSE acc)
        : r \in {UserLookUp(lines[i], field, value)} })

\* lookUp(&User{}, field, value, n) over the account file.
lookUp(file, field, value, n) ==
    IF n = 0 THEN [entries |-> << >>, err |-> Nil]
    ELSE The({ IF r.err # Nil THEN r
               ELSE IF r.entries = << >>
               THEN [entries |-> << >>, err |-> ErrNoFound]
               ELSE r
             : r \in { The({ ScanRows(lines, 1, field, value, n, << >>)
                           : lines \in {Lines(file)} }) } })

LookupInUser(file, field, value, n) ==
    The({ IF r.err # Nil THEN [entries |-> << >>, err |-> r.err]
          ELSE [entries |-> [i \in 1..Len(r.entries) |-> r.entries[i]],
                err |-> r.err]
        : r \in {lookUp(file, field, value, n)} })

\* entries[0] of an empty result is an index out of range.
FirstEntry(r) ==
    IF r.err # Nil THEN [user |-> NilPtr, err |-> r.err]
    ELSE IF r.entries = << >>
    THEN [user |-> NilPtr, err |-> RuntimePanic("index")]
    ELSE [user |-> Ptr(r.entries[1]), err |-> r.err]

LookupUIDByGid(file, id) ==
    The({ FirstEntry(entries)
        : entries \in {LookupInUser(file, U_GID, IntValue(id), 1)} })

LookupUID(file, id) ==
    The({ FirstEntry(entries)
        : entries \in {LookupInUser(file, U_UID, IntValue(id), 1)} })

LookupUser(file, name) ==
    The({ FirstEntry(entries)
        : entries \in {LookupInUser(file, U_NAME, StrValue(name), 1)} })

\* The identifiers of the rows of a file, by parseUser; the first parse error.
RECURSIVE ParseAll(_, _, _)
ParseAll(lines, i, acc) ==
    IF i > Len(lines) THEN [ids |-> acc, err |-> Nil]
    ELSE The({ IF r.err # Nil THEN [ids |-> { }, err |-> r.err]
               ELSE ParseAll(lines, i + 1, acc \cup {r.user.v.UID})
             : r \in {parseUser(lines[i])} })

\* nextUID(isSystem): the lowest identifier of the class's range that no row
\* uses.
nextUID(file, isSystem) ==
    LET lo == IF isSystem THEN SYS_UID_MIN ELSE UID_MIN
        hi == IF isSystem THEN SYS_UID_MAX ELSE UID_MAX
    IN  The({ IF used.err # Nil THEN [uid |-> 0, err |-> used.err]
              ELSE IF \A i \in lo..hi : i \in used.ids
              THEN [uid |-> 0, err |-> IdRangeError(hi)]
              ELSE [uid |-> CHOOSE i \in lo..hi :
                                /\ i \notin used.ids
                                /\ \A j \in lo..(i - 1) : j \in used.ids,
                    err |-> Nil]
            : used \in { The({ ParseAll(lines, 1, { })
                             : lines \in {Lines(file)} }) } })

(***************************************************************************)
(* The state.                                                              *)
(***************************************************************************)
VARIABLES
    passwd,   \* the account file: its text
    shadow,   \* the credential file: the Names of its rows, in file order
    lock,     \* the callers whose open handle holds the account file's
              \* exclusive lock: at most one, none when it is free
    pc,       \* each caller's position
    op,       \* each caller's current operation: "Add", "DelUser" or "none"
    arg,      \* the record (or, for DelUser, the Name) the call was given
    u,        \* the receiver *u of Add, which Add assigns to
    uid,      \* Add's named result uid
    err,      \* the call's result err
    old,      \* the account file as it was when the call began
    calls,    \* calls each caller has made
    faults,   \* storage-layer failures so far
    fnOp,     \* the pure function under study, "none" when there is none
    fnIn,     \* its input
    fnOut,    \* its result
    fnDone    \* whether it has been applied

vars == <<passwd, shadow, lock, pc, op, arg, u, uid, err, old, calls, faults,
          fnOp, fnIn, fnOut, fnDone>>

procVars == <<passwd, shadow, lock, pc, op, arg, u, uid, err, old, calls,
              faults>>

fnVars == <<fnOp, fnIn, fnOut, fnDone>>

Procs == 1..NumProcs
NoProc == { }

\* config.useradd.HOME, the home-root template.
HOME == <<"h">>

\* config.useradd.SHELL, the default shell.
SHELL == <<"s">>

\* path.Join of two elements without "." or ".." and without a slash at
\* either end: empty elements are left out.
PathJoin(a, b) ==
    IF a = << >> THEN b
    ELSE IF b = << >> THEN a
    ELSE a \o <<"/">> \o b

\* NewUser(username): UID and GID are left at the zero value.
NewUser(username) ==
    User(username, << >>, 0, 0, << >>, PathJoin(HOME, username), SHELL, FALSE)

NewSystemUser(name, homeDir, gid) ==
    User(name, << >>, -1, gid, << >>, homeDir,
         <<"/", "b", "i", "n", "/", "f", "a", "l", "s", "e">>, TRUE)

Letters == <<"a", "b", "c", "e", "f", "g">>
NameOf(p) == <<Letters[p]>>
Names == {NameOf(1), NameOf(2)}

\* The account of the administrator, present in every account file.
RootUser == User(<<"r">>, <<"x">>, 0, 0, << >>, <<"d">>, <<"s">>, FALSE)
FirstUser == User(NameOf(1), <<"x">>, UID_MIN, 0, << >>, <<"d">>, <<"s">>, FALSE)

InitFiles ==
    { [passwd |-> UserString(RootUser), shadow |-> <<RootUser.Name>>],
      [passwd |-> UserString(RootUser) \o UserString(FirstUser),
       shadow |-> <<RootUser.Name, FirstUser.Name>>] }

InitProcs ==
    /\ \E f \in InitFiles : passwd = f.passwd /\ shadow = f.shadow
    /\ lock = NoProc
    /\ pc = [p \in Procs |-> "idle"]
    /\ op = [p \in Procs |-> "none"]
    /\ arg = [p \in Procs |-> ZeroUser]
    /\ u = [p \in Procs |-> ZeroUser]
    /\ uid = [p \in Procs |-> 0]
    /\ err = [p \in Procs |-> Nil]
    /\ old = [p \in Procs |-> << >>]
    /\ calls = [p \in Procs |-> 0]
    /\ faults = 0

Init ==
    /\ InitProcs
    /\ fnOp = "none" /\ fnIn = << >> /\ fnOut = << >> /\ fnDone = FALSE

(***************************************************************************)
(* The records callers pass to Add.                                        *)
(***************************************************************************)
\* Accepted by the validation; the password a caller sets beforehand varies.
ValidUsers(names, ids, passwords) ==
    { User(nm, pw, id, 0, << >>, <<"d">>, <<"s">>, FALSE) :
        nm \in names, id \in ids, pw \in passwords }
    \cup { User(nm, pw, -1, 0, << >>, <<"d">>, <<"s">>, TRUE) :
        nm \in names, pw \in passwords }

\* With a missing field, the home root as directory, or both.
InvalidUsers ==
    { User(nm, <<"p">>, -1, 0, << >>, dir, sh, FALSE) :
        nm \in {<< >>, NameOf(1)}, dir \in {<< >>, HOME, <<"d">>},
        sh \in {<< >>, <<"s">>} }
    \ ValidUsers({NameOf(1)}, {-1}, {<<"p">>})

\* With the field delimiter or the row terminator in a text field, which no
\* check of Add looks at.
DelimiterUsers ==
    { User(<<"b">> \o c1, <<"p">>, id, 0, <<"g">> \o c2, <<"d">> \o c3,
           <<"s">> \o c4, FALSE) :
        id \in {-1, UID_MIN + 1},
        c1 \in {<< >>, <<":">>}, c2 \in {<< >>, <<":">>, <<"\n">>},
        c3 \in {<< >>, <<":">>}, c4 \in {<< >>, <<"\n">>} }

ConcUsers == ValidUsers(Names, {-1, UID_MIN}, {<<"p">>})
\* The Names one caller adds, one call after the other.
SeqNames == Names \cup {NameOf(3)}
\* Records as the constructors of the package build them.
ConstructedUsers ==
    { NewUser(NameOf(2)), NewSystemUser(NameOf(3), <<"d">>, 0) }

SeqUsers ==
    ValidUsers(SeqNames, {-1, 0, UID_MIN}, {<<"p">>, << >>})
        \cup InvalidUsers \cup ConstructedUsers
AllocUsers(p) ==
    { User(NameOf(p), <<"p">>, -1, 0, << >>, <<"d">>, <<"s">>, sys) :
        sys \in BOOLEAN }

\* Whether the storage layer fails at this step.
FaultChoices == IF faults < MaxFaults THEN {FALSE, TRUE} ELSE {FALSE}
Count(fail) == IF fail THEN 1 ELSE 0

(***************************************************************************)
(* User.Add.                                                               *)
(***************************************************************************)
\* The call returns (id, e).
Return(p, id, e) ==
    /\ pc' = [pc EXCEPT ![p] = "done"]
    /\ uid' = [uid EXCEPT ![p] = id]
    /\ err' = [err EXCEPT ![p] = e]

AddCall(p, r) ==
    /\ pc[p] \in {"idle", "done"}
    /\ calls[p] < MaxCalls
    /\ calls' = [calls EXCEPT ![p] = @ + 1]
    /\ pc' = [pc EXCEPT ![p] = "lookupUser"]
    /\ op' = [op EXCEPT ![p] = "Add"]
    /\ arg' = [arg EXCEPT ![p] = r]
    /\ u' = [u EXCEPT ![p] = r]
    /\ uid' = [uid EXCEPT ![p] = 0]
    /\ err' = [err EXCEPT ![p] = Nil]
    /\ old' = [old EXCEPT ![p] = passwd]
    /\ UNCHANGED <<passwd, shadow, lock, faults, fnVars>>

\* The checks of the fields, in the order of the code.
ValidateShellFirst(r) ==
    IF r.Name = << >> THEN RequiredError("Name")
    ELSE IF r.Dir = << >> THEN RequiredError("Dir")
    ELSE IF r.Shell = << >> THEN RequiredError("Shell")
    ELSE IF r.Dir = HOME THEN HomeError(HOME)
    ELSE Nil

Validate(r) ==
    IF r.Name = << >> THEN RequiredError("Name")
    ELSE IF r.Dir = << >> THEN RequiredError("Dir")
    ELSE IF r.Dir = HOME THEN HomeError(HOME)
    ELSE IF r.Shell = << >> THEN RequiredError("Shell")
    ELSE Nil

\* The error of the first part of Add (the lookup of the Name, then the checks
\* of the fields) after LookupUser returned found; Nil to go on.
AddChecksIgnoreFound(found, r) ==
    IF found.err # Nil /\ found.err # ErrNoFound THEN found.err
    ELSE Validate(r)

AddChecks(found, r) ==
    IF found.err # Nil /\ found.err # ErrNoFound THEN found.err
    ELSE IF ~found.user.nil THEN ErrExist
    ELSE Validate(r)

AddLookupUser(p) ==
    /\ pc[p] = "lookupUser"
    /\ \E fail \in FaultChoices :
         \E found \in { IF fail THEN [user |-> NilPtr, err |-> ErrIO]
                        ELSE LookupUser(passwd, u[p].Name) } :
         \E e \in {AddChecks(found, u[p])} :
             /\ faults' = faults + Count(fail)
             /\ IF e # Nil
                THEN Return(p, 0, e)
                ELSE /\ pc' = [pc EXCEPT ![p] = "resolve"]
                     /\ UNCHANGED <<uid, err>>
    /\ UNCHANGED <<passwd, shadow, lock, op, arg, u, old, calls, fnVars>>

\* u.UID < 0: nextUID opens the account file, which takes its lock, and picks;
\* the handle it returns is the one the row is written to.
AddNextUIDReleasing(p) ==
    /\ pc[p] = "resolve"
    /\ u[p].UID < 0
    /\ lock = NoProc
    /\ \E r \in {nextUID(passwd, u[p].IsOfSystem)} :
           IF r.err # Nil
           THEN /\ Return(p, 0, r.err)
                /\ UNCHANGED <<lock, u>>
           ELSE /\ lock' = NoProc
                /\ u' = [u EXCEPT ![p].UID = r.uid]
                /\ uid' = [uid EXCEPT ![p] = r.uid]
                /\ pc' = [pc EXCEPT ![p] = "write"]
                /\ UNCHANGED err
    /\ UNCHANGED <<passwd, shadow, op, arg, old, calls, faults, fnVars>>

AddNextUIDKeepsRequest(p) ==
    /\ pc[p] = "resolve"
    /\ u[p].UID < 0
    /\ lock = NoProc
    /\ \E r \in {nextUID(passwd, u[p].IsOfSystem)} :
           IF r.err # Nil
           THEN /\ Return(p, 0, r.err)
                /\ UNCHANGED <<lock, u>>
           ELSE /\ lock' = {p}
                /\ uid' = [uid EXCEPT ![p] = r.uid]
                /\ pc' = [pc EXCEPT ![p] = "write"]
                /\ UNCHANGED <<err, u>>
    /\ UNCHANGED <<passwd, shadow, op, arg, old, calls, faults, fnVars>>

AddNextUIDOnZero(p) ==
    /\ pc[p] = "resolve"
    /\ u[p].UID <= 0
    /\ lock = NoProc
    /\ \E r \in {nextUID(passwd, u[p].IsOfSystem)} :
           IF r.err # Nil
           THEN /\ Return(p, 0, r.err)
                /\ UNCHANGED <<lock, u>>
           ELSE /\ lock' = {p}
                /\ u' = [u EXCEPT ![p].UID = r.uid]
                /\ uid' = [uid EXCEPT ![p] = r.uid]
                /\ pc' = [pc EXCEPT ![p] = "write"]
                /\ UNCHANGED err
    /\ UNCHANGED <<passwd, shadow, op, arg, old, calls, faults, fnVars>>

AddNextUID(p) ==
    /\ pc[p] = "resolve"
    /\ u[p].UID < 0
    /\ lock = NoProc
    /\ \E r \in {nextUID(passwd, u[p].IsOfSystem)} :
           IF r.err # Nil
           THEN \* db.close(); return 0, err
                /\ Return(p, 0, r.err)
                /\ UNCHANGED <<lock, u>>
           ELSE /\ lock' = {p}
                /\ u' = [u EXCEPT ![p].UID = r.uid]
                /\ uid' = [uid EXCEPT ![p] = r.uid]
                /\ pc' = [pc EXCEPT ![p] = "write"]
                /\ UNCHANGED err
    /\ UNCHANGED <<passwd, shadow, op, arg, old, calls, faults, fnVars>>

\* u.UID >= 0: openDBFile(_USER_FILE, O_WRONLY|O_APPEND).
AddOpen(p) ==
    /\ pc[p] = "resolve"
    /\ u[p].UID >= 0
    /\ \E fail \in FaultChoices :
         /\ faults' = faults + Count(fail)
         /\ IF fail
            THEN /\ Return(p, 0, ErrIO)
                 /\ UNCHANGED lock
            ELSE /\ lock = NoProc
                 /\ lock' = {p}
                 /\ pc' = [pc EXCEPT ![p] = "checkUID"]
                 /\ UNCHANGED <<uid, err>>
    /\ UNCHANGED <<passwd, shadow, op, arg, u, old, calls, fnVars>>

\* The outcome of `_, err = LookupUID(u.UID)`: the error Add returns, Nil to
\* go on to the write.
CheckUID(found, id) ==
    IF found.err = Nil THEN IdUsedError(id)
    ELSE IF found.err # ErrNoFound THEN found.err
    ELSE Nil

\* Check if Id is unique.  Both returns leave db open.
AddCheckUID(p) ==
    /\ pc[p] = "checkUID"
    /\ \E fail \in FaultChoices :
         \E found \in { IF fail THEN [user |-> NilPtr, err |-> ErrIO]
                        ELSE LookupUID(passwd, u[p].UID) } :
         \E e \in {CheckUID(found, u[p].UID)} :
             /\ faults' = faults + Count(fail)
             /\ IF e # Nil
                THEN Return(p, 0, e)
                ELSE /\ pc' = [pc EXCEPT ![p] = "write"]
                     /\ err' = [err EXCEPT ![p] = found.err]
                     /\ UNCHANGED uid
    /\ UNCHANGED <<passwd, shadow, lock, op, arg, u, old, calls, fnVars>>

\* The record Add serializes.
SealedKeepPassword(r) == r

Sealed(r) == [r EXCEPT !.password = <<"x">>]

AddWritePrepends(p) ==
    /\ pc[p] = "write"
    /\ \E fail \in FaultChoices :
         /\ faults' = faults + Count(fail)
         /\ u' = [u EXCEPT ![p] = Sealed(u[p])]
         /\ IF fail
            THEN /\ err' = [err EXCEPT ![p] = ErrWrite]
                 /\ UNCHANGED passwd
            ELSE /\ err' = [err EXCEPT ![p] = Nil]
                 /\ passwd' = UserString(Sealed(u[p])) \o passwd
    /\ pc' = [pc EXCEPT ![p] = "close"]
    /\ UNCHANGED <<shadow, lock, op, arg, uid, old, calls, fnVars>>

\* u.password = "x"; _, err = db.file.WriteString(u.String())
AddWrite(p) ==
    /\ pc[p] = "write"
    /\ \E fail \in FaultChoices :
         /\ faults' = faults + Count(fail)
         /\ u' = [u EXCEPT ![p] = Sealed(u[p])]
         /\ IF fail
            THEN /\ err' = [err EXCEPT ![p] = ErrWrite]
                 /\ UNCHANGED passwd
            ELSE /\ err' = [err EXCEPT ![p] = Nil]
                 /\ passwd' = passwd \o UserString(Sealed(u[p]))
    /\ pc' = [pc EXCEPT ![p] = "close"]
    /\ UNCHANGED <<shadow, lock, op, arg, uid, old, calls, fnVars>>

AddCloseMasks(p) ==
    /\ pc[p] = "close"
    /\ \E fail \in FaultChoices :
         /\ faults' = faults + Count(fail)
         /\ err' = [err EXCEPT ![p] = IF fail THEN ErrClose ELSE @]
    /\ lock' = NoProc
    /\ pc' = [pc EXCEPT ![p] = "done"]
    /\ UNCHANGED <<passwd, shadow, op, arg, u, uid, old, calls, fnVars>>

\* err2 := db.close(); the lock is released whether or not the close fails.
AddClose(p) ==
    /\ pc[p] = "close"
    /\ \E fail \in FaultChoices :
         /\ faults' = faults + Count(fail)
         /\ err' = [err EXCEPT ![p] = IF fail /\ err[p] = Nil THEN ErrClose ELSE @]
    /\ lock' = NoProc
    /\ pc' = [pc EXCEPT ![p] = "done"]
    /\ UNCHANGED <<passwd, shadow, op, arg, u, uid, old, calls, fnVars>>

(***************************************************************************)
(* DelUser.  The removal of a row (del) is not among the package's files   *)
(* at hand; it follows the package's specification (sections 4.3, 4.5):    *)
(* under the file's exclusive lock, the file is replaced by a copy without *)
(* the matching row.                                                       *)
(***************************************************************************)
\* The rows from row i on, each with its line terminator, without the first
\* of them whose Name is name (skip tells whether one is still to be left out).
RECURSIVE CopyRows(_, _, _, _)
CopyRows(rows, i, name, skip) ==
    IF i > Len(rows) THEN << >>
    ELSE IF skip /\ Split(rows[i], ":")[1] = name
    THEN CopyRows(rows, i + 1, name, FALSE)
    ELSE rows[i] \o <<"\n">> \o CopyRows(rows, i + 1, name, skip)

\* del(name, &User{}) on the text of the account file.
delUserRow(file, name) ==
    The({ CopyRows(rows, 1, name, TRUE) : rows \in {Lines(file)} })

\* del(name, &Shadow{}) on the rows of the credential file.
delShadowRow(rows, name) ==
    IF \E i \in 1..Len(rows) : rows[i] = name
    THEN LET i == CHOOSE k \in 1..Len(rows) :
                      rows[k] = name /\ \A j \in 1..(k - 1) : rows[j] # name
         IN  SubSeq(rows, 1, i - 1) \o SubSeq(rows, i + 1, Len(rows))
    ELSE rows

DelCall(p, name) ==
    /\ pc[p] \in {"idle", "done"}
    /\ calls[p] < MaxCalls
    /\ calls' = [calls EXCEPT ![p] = @ + 1]
    /\ pc' = [pc EXCEPT ![p] = "delUser"]
    /\ op' = [op EXCEPT ![p] = "DelUser"]
    /\ arg' = [arg EXCEPT ![p] = [ZeroUser EXCEPT !.Name = name]]
    /\ u' = [u EXCEPT ![p] = ZeroUser]
    /\ uid' = [uid EXCEPT ![p] = 0]
    /\ err' = [err EXCEPT ![p] = Nil]
    /\ old' = [old EXCEPT ![p] = passwd]
    /\ UNCHANGED <<passwd, shadow, lock, faults, fnVars>>

\* err = del(name, &User{})
DelAccount(p) ==
    /\ pc[p] = "delUser"
    /\ \E fail \in FaultChoices :
         /\ faults' = faults + Count(fail)
         /\ IF fail
            THEN /\ Return(p, 0, ErrIO)
                 /\ UNCHANGED passwd
            ELSE /\ lock = NoProc
                 /\ passwd' = delUserRow(passwd, arg[p].Name)
                 /\ pc' = [pc EXCEPT ![p] = "delShadow"]
                 /\ UNCHANGED <<uid, err>>
    /\ UNCHANGED <<shadow, lock, op, arg, u, old, calls, fnVars>>

DelShadowRollback(p) ==
    /\ pc[p] = "delShadow"
    /\ \E fail \in FaultChoices :
         /\ faults' = faults + Count(fail)
         /\ IF fail
            THEN /\ Return(p, 0, ErrIO)
                 /\ passwd' = old[p]
                 /\ UNCHANGED shadow
            ELSE /\ Return(p, 0, Nil)
                 /\ shadow' = delShadowRow(shadow, arg[p].Name)
                 /\ UNCHANGED passwd
    /\ UNCHANGED <<lock, op, arg, u, old, calls, fnVars>>

\* if err == nil { err = del(name, &Shadow{}) }
DelShadow(p) ==
    /\ pc[p] = "delShadow"
    /\ \E fail \in FaultChoices :
         /\ faults' = faults + Count(fail)
         /\ IF fail
            THEN /\ Return(p, 0, ErrIO)
                 /\ UNCHANGED shadow
            ELSE /\ Return(p, 0, Nil)
                 /\ shadow' = delShadowRow(shadow, arg[p].Name)
    /\ UNCHANGED <<passwd, lock, op, arg, u, old, calls, fnVars>>

(***************************************************************************)
(* Specifications.                                                         *)
(***************************************************************************)
\* Concurrent callers of Add and DelUser.
Next ==
    \E p \in Procs :
        \/ \E r \in ConcUsers : AddCall(p, r)
        \/ AddLookupUser(p)
        \/ AddNextUID(p)
        \/ AddOpen(p)
        \/ AddCheckUID(p)
        \/ AddWrite(p)
        \/ AddClose(p)
        \/ \E name \in Names : DelCall(p, name)
        \/ DelAccount(p)
        \/ DelShadow(p)

Spec == Init /\ [][Next]_vars

\* One caller, one call after the other, with every kind of record.
NextSeq ==
    \/ \E r \in SeqUsers : AddCall(1, r)
    \/ AddLookupUser(1)
    \/ AddNextUID(1)
    \/ AddOpen(1)
    \/ AddCheckUID(1)
    \/ AddWrite(1)
    \/ AddClose(1)
    \/ \E name \in Names \cup {RootUser.Name} : DelCall(1, name)
    \/ DelAccount(1)
    \/ DelShadow(1)

SpecSeq == Init /\ [][NextSeq]_vars

\* The next statement of a call of Add that is under way.
AddStep(p) ==
    \/ AddLookupUser(p)
    \/ AddNextUID(p)
    \/ AddOpen(p)
    \/ AddCheckUID(p)
    \/ AddWrite(p)
    \/ AddClose(p)

\* One caller that keeps running: a call of Add that can take its next step
\* takes it.
SpecSeqFair == SpecSeq /\ WF_vars(AddStep(1))

\* Concurrent callers that each make one call of Add, all requesting an
\* identifier, each for a Name of its own.
NextAlloc ==
    \E p \in Procs :
        \/ \E r \in AllocUsers(p) : calls[p] = 0 /\ AddCall(p, r)
        \/ AddLookupUser(p)
        \/ AddNextUID(p)
        \/ AddWrite(p)
        \/ AddClose(p)

SpecAlloc == Init /\ [][NextAlloc]_vars

\* One caller that adds records whose text fields may hold a delimiter.
NextRaw ==
    \/ \E r \in DelimiterUsers : AddCall(1, r)
    \/ AddLookupUser(1)
    \/ AddNextUID(1)
    \/ AddOpen(1)
    \/ AddCheckUID(1)
    \/ AddWrite(1)
    \/ AddClose(1)

SpecRaw == Init /\ [][NextRaw]_vars

(***************************************************************************)
(* The pure functions, each applied to inputs drawn from bounded sets.     *)
(***************************************************************************)
RoundTripUsers ==
    { User(nm, pw, id, gid, gecos, <<"d">>, sh, sys) :
        nm \in {<< >>, <<"a">>}, pw \in {<< >>, <<"x">>},
        id \in {-1, 0, UID_MIN, 105}, gid \in {0, 27},
        gecos \in {<< >>, <<"g", " ", "g">>}, sh \in {<< >>, <<"s">>},
        sys \in BOOLEAN }

\* Texts of a numeric field: integers in base 10, and others.
NumTexts ==
    { <<"1", "0">>, <<"-", "1">>, <<"+", "7">>, <<"0", "0", "7">>, <<"0">>,
      << >>, <<"x">>, <<"1", "x">>, <<"-">>, <<"1", "-">>, <<" ", "1">> }

RECURSIVE JoinFrom(_, _)
JoinFrom(fields, i) ==
    IF i = Len(fields) THEN fields[i]
    ELSE fields[i] \o <<":">> \o JoinFrom(fields, i + 1)

JoinColon(fields) == JoinFrom(fields, 1)

\* Rows of one to eight fields, none of which holds a colon.
ParseFields ==
    { <<<<"a">>, <<"x">>, n1, n2, << >>, <<"d">>, <<"s">>>> :
        n1 \in NumTexts, n2 \in NumTexts }
    \cup { SubSeq(<<<<"a">>, <<"b">>, <<"c">>, <<"1">>, << >>, <<"d">>, <<"s">>,
                    <<"t">>>>, 1, k) : k \in 1..8 }
    \cup { <<<< >>>>, <<<<"a">>, <<"x">>, <<"1">>, <<"y">>, << >>, <<"d">>,
                       <<"s">>, <<"t">>>>,
           <<<<"a">>, <<"x">>, <<"1">>, <<"2">>, << >>, <<"d">>, <<"s", "\n">>>> }

LookupRecs ==
    { User(<<"a">>, <<"x">>, UID_MIN, 0, << >>, <<"d">>, <<"s">>, FALSE),
      User(<<"b">>, <<"x">>, UID_MIN + 1, 0, <<"g">>, <<"d">>, <<"s">>, FALSE),
      User(<<"a">>, << >>, UID_MIN + 1, UID_MIN, <<"g">>, <<"e">>, <<"s">>, FALSE) }

LookupQueries ==
    { [field |-> U_NAME, value |-> StrValue(<<"a">>)],
      [field |-> U_NAME, value |-> StrValue(<<"z">>)],
      [field |-> U_PASSWD, value |-> StrValue(<<"x">>)],
      [field |-> U_UID, value |-> IntValue(UID_MIN + 1)],
      [field |-> U_GID, value |-> IntValue(0)],
      [field |-> U_GECOS, value |-> StrValue(<<"g">>)],
      [field |-> U_DIR, value |-> StrValue(<<"d">>)],
      [field |-> U_SHELL, value |-> StrValue(<<"s">>)],
      [field |-> U_ALL, value |-> StrValue(<< >>)] }

RECURSIVE FileFrom(_, _)
FileFrom(recs, i) ==
    IF i > Len(recs) THEN << >>
    ELSE UserString(recs[i]) \o FileFrom(recs, i + 1)

\* The account file that holds the rows of recs.
FileOf(recs) == FileFrom(recs, 1)

LookupFiles == UNION { [1..k -> LookupRecs] : k \in 0..MaxRows }

\* The identifiers and Names LookupUID and LookupUser are asked for: of one
\* row, of several, of none.
LookupIds == {UID_MIN, UID_MIN + 1, UID_MIN + 2, 0}
LookupNames == {<<"a">>, <<"b">>, <<"z">>, << >>}

\* Rows of an account file, as their fields: well-formed, with a numeric field
\* that is no integer, and with fewer than seven fields.
RawRows ==
    { <<<<"a">>, <<"x">>, <<"1", "0">>, <<"0">>, << >>, <<"d">>, <<"s">>>>,
      <<<<"b">>, <<"x">>, <<"y">>, <<"0">>, << >>, <<"d">>, <<"s">>>>,
      <<<<"b">>, <<"x">>, <<"1">>, << >>, << >>, <<"d">>, <<"s">>>>,
      <<<<"a">>, <<"x">>, <<"1">>, <<"2">>, << >>, <<"d">>>>,
      <<<<"c">>, <<"x">>, <<"1">>, <<"2">>>>,
      <<<<"c">>, <<"x">>>> }

RawFiles == UNION { [1..k -> RawRows] : k \in 1..2 }

RawQueries ==
    { [field |-> U_NAME, value |-> StrValue(<<"a">>)],
      [field |-> U_NAME, value |-> StrValue(<<"z">>)],
      [field |-> U_UID, value |-> IntValue(10)],
      [field |-> U_ALL, value |-> StrValue(<< >>)] }

RECURSIVE RawFileFrom(_, _)
RawFileFrom(rows, i) ==
    IF i > Len(rows) THEN << >>
    ELSE JoinColon(rows[i]) \o <<"\n">> \o RawFileFrom(rows, i + 1)

\* The account file whose rows have these fields.
RawFileOf(rows) == RawFileFrom(rows, 1)

\* Masks with one bit, with several bits of one type, of both types, and with
\* U_ALL; query values of both types.
MatchMasks ==
    { U_NAME, U_PASSWD, U_UID, U_GID, U_GECOS, U_DIR, U_SHELL, U_ALL,
      U_NAME + U_SHELL, U_PASSWD + U_DIR, U_UID + U_GID, U_NAME + U_UID,
      U_GID + U_SHELL, U_DIR + U_ALL, U_UID + U_ALL, U_NAME + U_GID + U_ALL }

MatchValues ==
    { StrValue(<<"a">>), StrValue(<<"s">>), StrValue(<<"z">>),
      IntValue(UID_MIN), IntValue(0), IntValue(UID_MIN + 2) }

InitFn ==
    /\ InitProcs
    /\ fnOut = << >>
    /\ fnDone = FALSE
    /\ \/ fnOp = "roundtrip" /\ fnIn \in RoundTripUsers
       \/ /\ fnOp = "parse"
          /\ \E fs \in ParseFields : fnIn = [fields |-> fs, row |-> JoinColon(fs)]
       \/ /\ fnOp = "lookup"
          /\ \E recs \in LookupFiles, q \in LookupQueries, n \in (-2)..(MaxRows + 1) :
               fnIn = [recs |-> recs, field |-> q.field, value |-> q.value, n |-> n]
       \/ /\ fnOp = "lookupRaw"
          /\ \E rows \in RawFiles, q \in RawQueries, n \in {-1, 1, 2} :
               fnIn = [rows |-> rows, field |-> q.field, value |-> q.value, n |-> n]
       \/ /\ fnOp = "match"
          /\ \E r \in LookupRecs, mask \in MatchMasks, v \in MatchValues :
               fnIn = [rec |-> r, field |-> mask, value |-> v]
       \/ /\ fnOp = "lookupUID"
          /\ \E recs \in LookupFiles, id \in LookupIds :
               fnIn = [recs |-> recs, id |-> id]
       \/ /\ fnOp = "lookupUser"
          /\ \E recs \in LookupFiles, name \in LookupNames :
               fnIn = [recs |-> recs, name |-> name]

\* parseUser(r.String())
ApplyRoundTrip ==
    /\ fnOp = "roundtrip" /\ ~fnDone
    /\ fnOut' = parseUser(UserString(fnIn))
    /\ fnDone' = TRUE
    /\ UNCHANGED <<procVars, fnOp, fnIn>>

\* parseUser(row)
ApplyParse ==
    /\ fnOp = "parse" /\ ~fnDone
    /\ fnOut' = parseUser(fnIn.row)
    /\ fnDone' = TRUE
    /\ UNCHANGED <<procVars, fnOp, fnIn>>

\* LookupInUser(field, value, n) over a file
ApplyLookup ==
    /\ fnOp = "lookup" /\ ~fnDone
    /\ fnOut' = LookupInUser(FileOf(fnIn.recs), fnIn.field, fnIn.value, fnIn.n)
    /\ fnDone' = TRUE
    /\ UNCHANGED <<procVars, fnOp, fnIn>>

\* LookupUID(id) over a file
ApplyLookupUID ==
    /\ fnOp = "lookupUID" /\ ~fnDone
    /\ fnOut' = LookupUID(FileOf(fnIn.recs), fnIn.id)
    /\ fnDone' = TRUE
    /\ UNCHANGED <<procVars, fnOp, fnIn>>

\* LookupUser(name) over a file
ApplyLookupUser ==
    /\ fnOp = "lookupUser" /\ ~fnDone
    /\ fnOut' = LookupUser(FileOf(fnIn.recs), fnIn.name)
    /\ fnDone' = TRUE
    /\ UNCHANGED <<procVars, fnOp, fnIn>>

\* LookupInUser(field, value, n) over a file with rows that are not well-formed
ApplyLookupRaw ==
    /\ fnOp = "lookupRaw" /\ ~fnDone
    /\ fnOut' = LookupInUser(RawFileOf(fnIn.rows), fnIn.field, fnIn.value, fnIn.n)
    /\ fnDone' = TRUE
    /\ UNCHANGED <<procVars, fnOp, fnIn>>

\* (*User).lookUp(line, field, value) on a well-formed row
ApplyMatch ==
    /\ fnOp = "match" /\ ~fnDone
    /\ fnOut' = UserLookUp(Head(Lines(UserString(fnIn.rec))), fnIn.field, fnIn.value)
    /\ fnDone' = TRUE
    /\ UNCHANGED <<procVars, fnOp, fnIn>>

NextFn ==
    \/ ApplyRoundTrip
    \/ ApplyParse
    \/ ApplyLookup
    \/ ApplyLookupUID
    \/ ApplyLookupUser
    \/ ApplyLookupRaw
    \/ ApplyMatch

SpecFn == InitFn /\ [][NextFn]_vars

(***************************************************************************)
(* What the claims speak of.                                               *)
(***************************************************************************)
\* The fields of the rows of a file, in file order.
RowFields(file) ==
    The({ [i \in 1..Len(rows) |-> Split(rows[i], ":")] : rows \in {Lines(file)} })

HasName(file, name) ==
    \E i \in 1..Len(RowFields(file)) : RowFields(file)[i][1] = name

HasUID(file, id) ==
    \E i \in 1..Len(RowFields(file)) : RowFields(file)[i][3] = Itoa(id)

\* The caller's call of Add has returned.
AddDone(p) == pc[p] = "done" /\ op[p] = "Add"

\* The range of identifiers configured for a class of account.
ClassRange(isSystem) ==
    IF isSystem THEN SYS_UID_MIN..SYS_UID_MAX ELSE UID_MIN..UID_MAX

\* The record passes every check of its fields.
FieldsValid(r) ==
    r.Name # << >> /\ r.Dir # << >> /\ r.Shell # << >> /\ r.Dir # HOME

(***************************************************************************)
(* C1.  Concurrent calls of Add that each request an identifier (UID < 0)  *)
(* for distinct Names: the identifiers the successful calls return are     *)
(* pairwise distinct and each lies in the range of the record's class, and *)
(* no two calls are at once between picking their identifier and appending *)
(* their row.                                                              *)
(***************************************************************************)
C1_AllocationSafety ==
    /\ \A p \in Procs :
         AddDone(p) /\ err[p] = Nil => uid[p] \in ClassRange(arg[p].IsOfSystem)
    /\ \A p, q \in Procs :
         p # q /\ AddDone(p) /\ err[p] = Nil /\ AddDone(q) /\ err[q] = Nil
             => uid[p] # uid[q]
    /\ \A p, q \in Procs : pc[p] = "write" /\ pc[q] = "write" => p = q

\* Two callers were given identifiers of the same class.
C1_Witness ==
    \E p, q \in Procs :
        /\ p # q
        /\ AddDone(p) /\ err[p] = Nil /\ AddDone(q) /\ err[q] = Nil
        /\ arg[p].UID < 0 /\ arg[q].UID < 0
        /\ arg[p].IsOfSystem = arg[q].IsOfSystem

(***************************************************************************)
(* C2.  In every reachable state of the account file no two rows have the  *)
(* same Name and no two rows with UID >= 0 have the same UID, whatever the *)
(* interleaving of Add and DelUser calls.                                  *)
(***************************************************************************)
C2_UniqueNamesAndIds ==
    \A i, j \in 1..Len(RowFields(passwd)) :
        i # j =>
            /\ RowFields(passwd)[i][1] # RowFields(passwd)[j][1]
            /\ Atoi(RowFields(passwd)[i][3]).val >= 0
                   => RowFields(passwd)[i][3] # RowFields(passwd)[j][3]

(***************************************************************************)
(* C3.  One caller, no storage failure: an Add whose Name is that of a row *)
(* of the file returns ErrExist; an Add of an otherwise acceptable record  *)
(* with a new Name and an explicit UID >= 0 that a row of the file has     *)
(* returns IdUsedError(UID); in both cases the file is as it was.          *)
(***************************************************************************)
C3_SequentialUniqueness ==
    \A p \in Procs :
        AddDone(p) /\ faults = 0 =>
            /\ HasName(old[p], arg[p].Name)
                   => err[p] = ErrExist /\ passwd = old[p]
            /\ ( /\ ~HasName(old[p], arg[p].Name)
                 /\ FieldsValid(arg[p])
                 /\ arg[p].UID >= 0
                 /\ HasUID(old[p], arg[p].UID) )
                   => err[p] = IdUsedError(arg[p].UID) /\ passwd = old[p]

\* The identifier refused is one an earlier Add of this caller was given: no
\* row of the first files has the Name of the second caller.
C3_Witness ==
    /\ AddDone(1) /\ calls[1] = 2
    /\ err[1] = IdUsedError(UID_MIN)
    /\ HasName(old[1], NameOf(2))
    /\ passwd = old[1]

(***************************************************************************)
(* C4.  A successful Add returns the identifier written in the row it      *)
(* appended: the allocated one when the caller passed UID < 0, the         *)
(* caller's own when it passed UID >= 0.                                   *)
(***************************************************************************)
C4_ReturnsResolvedId ==
    \A p \in Procs :
        AddDone(p) /\ err[p] = Nil =>
            /\ uid[p] = u[p].UID
            /\ arg[p].UID >= 0 => uid[p] = arg[p].UID

(***************************************************************************)
(* C5.  Whenever Add returns, the lock it took on the account file is no   *)
(* longer held.                                                            *)
(***************************************************************************)
C5_LockReleased == \A p \in Procs : AddDone(p) => p \notin lock

(***************************************************************************)
(* C6.  As claimed: Add reports the earliest failing step in the order     *)
(* RequiredError (Name, Dir or Shell empty), HomeError, ErrExist, then the *)
(* resolution of the identifier.                                           *)
(***************************************************************************)
C6_ClaimedOrder ==
    \A p \in Procs :
        AddDone(p) /\ faults = 0 =>
            IF arg[p].Name = << >> \/ arg[p].Dir = << >> \/ arg[p].Shell = << >>
            THEN /\ err[p].e = "RequiredError"
                 /\ \/ err[p].f = "Name" /\ arg[p].Name = << >>
                    \/ err[p].f = "Dir" /\ arg[p].Dir = << >>
                    \/ err[p].f = "Shell" /\ arg[p].Shell = << >>
            ELSE IF arg[p].Dir = HOME THEN err[p] = HomeError(HOME)
            ELSE IF HasName(old[p], arg[p].Name) THEN err[p] = ErrExist
            ELSE err[p].e \in {"nil", "IdUsedError", "IdRangeError"}

(***************************************************************************)
(* C6, amended.  One caller, no storage failure: Add reports the earliest  *)
(* failing step in the order ErrExist (a row has the Name),                *)
(* RequiredError("Name"), RequiredError("Dir"), HomeError,                 *)
(* RequiredError("Shell"), then the resolution of the identifier.          *)
(***************************************************************************)
C6_CodeOrder ==
    \A p \in Procs :
        AddDone(p) /\ faults = 0 =>
            IF HasName(old[p], arg[p].Name) THEN err[p] = ErrExist
            ELSE IF arg[p].Name = << >> THEN err[p] = RequiredError("Name")
            ELSE IF arg[p].Dir = << >> THEN err[p] = RequiredError("Dir")
            ELSE IF arg[p].Dir = HOME THEN err[p] = HomeError(HOME)
            ELSE IF arg[p].Shell = << >> THEN err[p] = RequiredError("Shell")
            ELSE err[p].e \in {"nil", "IdUsedError", "IdRangeError"}

\* A record with the home root as directory and no shell was refused.
C6_Witness ==
    /\ AddDone(1) /\ faults = 0
    /\ arg[1].Dir = HOME /\ arg[1].Shell = << >>
    /\ err[1] = HomeError(HOME)

(***************************************************************************)
(* C7.  Every row appended to the account file is the text of a record     *)
(* whose password is "x", whatever password the caller's record held.      *)
(***************************************************************************)
C7_PasswordSentinel ==
    [][Len(passwd') > Len(passwd) =>
          \E p \in Procs :
              /\ u'[p].password = <<"x">>
              /\ passwd' = passwd \o UserString(u'[p])]_vars

\* A record that held another password was appended.
C7_Witness ==
    /\ AddDone(1) /\ err[1] = Nil
    /\ arg[1].password = <<"p">>
    /\ passwd = old[1] \o UserString(u[1])

(***************************************************************************)
(* C8.  For every record r whose text fields hold no ':', parseUser of     *)
(* r.String() succeeds and returns a record equal to r field by field.     *)
(***************************************************************************)
C8_RoundTrip ==
    fnOp = "roundtrip" /\ fnDone => fnOut.err = Nil /\ fnOut.user = Ptr(fnIn)

(***************************************************************************)
(* C9.  parseUser(row) fails with ErrRow exactly when the row does not     *)
(* have 7 fields; a row of 7 fields fails with the fieldError of the file, *)
(* the row and "UID" when field 3 is not an integer in base 10, else with  *)
(* that of "GID" when field 4 is not; otherwise it succeeds.               *)
(***************************************************************************)
\* An optional sign, then at least one digit and digits only.
IsBase10Integer(s) ==
    LET first == IF s # << >> /\ s[1] \in {"+", "-"} THEN 2 ELSE 1
    IN  /\ first <= Len(s)
        /\ \A i \in first..Len(s) :
               s[i] \in {"0", "1", "2", "3", "4", "5", "6", "7", "8", "9"}

C9_ParseErrors ==
    fnOp = "parse" /\ fnDone =>
        /\ fnOut.err = ErrRow <=> Len(fnIn.fields) # 7
        /\ Len(fnIn.fields) = 7 =>
               IF ~IsBase10Integer(fnIn.fields[3])
               THEN fnOut.err = fieldError(_USER_FILE, fnIn.row, "UID")
               ELSE IF ~IsBase10Integer(fnIn.fields[4])
               THEN fnOut.err = fieldError(_USER_FILE, fnIn.row, "GID")
               ELSE fnOut.err = Nil /\ ~fnOut.user.nil

\* A row of 8 fields was refused.
C9_Witness ==
    /\ fnOp = "parse" /\ fnDone
    /\ Len(fnIn.fields) = 8
    /\ fnOut.err = ErrRow

(***************************************************************************)
(* C10.  LookupInUser(field, value, n) over an account file with m         *)
(* matching rows: for n > 0 the first min(n, m) of them in file order, for *)
(* n < 0 all of them in file order, for n = 0 an empty result and no       *)
(* error; ErrNoFound exactly when n # 0 and m = 0.                         *)
(***************************************************************************)
\* The records of the file that the query selects, in file order.
Matching(recs, field, value) ==
    LET Selected(r) ==
            \/ field = U_NAME /\ r.Name = value.s
            \/ field = U_PASSWD /\ r.password = value.s
            \/ field = U_UID /\ r.UID = value.i
            \/ field = U_GID /\ r.GID = value.i
            \/ field = U_GECOS /\ r.Gecos = value.s
            \/ field = U_DIR /\ r.Dir = value.s
            \/ field = U_SHELL /\ r.Shell = value.s
            \/ field = U_ALL
    IN  SelectSeq(recs, Selected)

C10_LookupLimit ==
    fnOp = "lookup" /\ fnDone =>
        LET m == Matching(fnIn.recs, fnIn.field, fnIn.value)
            k == IF fnIn.n < Len(m) THEN fnIn.n ELSE Len(m)
        IN  /\ fnIn.n > 0 => fnOut.entries = SubSeq(m, 1, k)
            /\ fnIn.n < 0 => fnOut.entries = m
            /\ fnIn.n = 0 => fnOut.entries = << >> /\ fnOut.err = Nil
            /\ fnOut.err = ErrNoFound <=> fnIn.n # 0 /\ m = << >>
            /\ fnOut.err \in {Nil, ErrNoFound}

\* A lookup limited to two rows over a file with three matching rows.
C10_Witness ==
    /\ fnOp = "lookup" /\ fnDone
    /\ fnIn.n = 2
    /\ fnIn.field = U_GID
    /\ Len(Matching(fnIn.recs, fnIn.field, fnIn.value)) = 3
    /\ Len(fnOut.entries) = 2

(***************************************************************************)
(* C11.  LookupUID(id) and LookupUser(name) over an account file of        *)
(* well-formed rows return the first row in file order whose UID (Name)    *)
(* is the argument, and ErrNoFound when no row has it; they never index an *)
(* empty result.                                                           *)
(***************************************************************************)
\* The first record of recs that Has accepts, as the lookups return it.
FirstOf(recs, idx) ==
    IF idx = { } THEN [user |-> NilPtr, err |-> ErrNoFound]
    ELSE [user |-> Ptr(recs[CHOOSE i \in idx : \A j \in idx : i <= j]),
          err |-> Nil]

C11_FirstMatch ==
    /\ fnOp = "lookupUID" /\ fnDone =>
           fnOut = FirstOf(fnIn.recs,
                           { i \in 1..Len(fnIn.recs) : fnIn.recs[i].UID = fnIn.id })
    /\ fnOp = "lookupUser" /\ fnDone =>
           fnOut = FirstOf(fnIn.recs,
                           { i \in 1..Len(fnIn.recs) : fnIn.recs[i].Name = fnIn.name })
    /\ fnOp \in {"lookupUID", "lookupUser"} /\ fnDone =>
           fnOut.err # RuntimePanic("index")

\* The identifier asked for is that of the second and third rows: the second
\* is returned.
C11_Witness ==
    /\ fnOp = "lookupUID" /\ fnDone
    /\ Len(fnIn.recs) = 3
    /\ fnIn.recs[1].UID # fnIn.id
    /\ fnIn.recs[2].UID = fnIn.id /\ fnIn.recs[3].UID = fnIn.id
    /\ fnIn.recs[2] # fnIn.recs[3]
    /\ fnOut.err = Nil /\ fnOut.user = Ptr(fnIn.recs[2])

(***************************************************************************)
(* C12.  DelUser(name), one caller: a failed deletion from the account     *)
(* file returns the error and leaves the credential file as it was; the    *)
(* credential file changes only after the account row was deleted; when    *)
(* both deletions succeed neither file has a row for name and              *)
(* LookupUser(name) then returns ErrNoFound; when the second deletion      *)
(* fails DelUser returns its error, the account file stays without the row *)
(* and the credential file keeps its row.                                  *)
(***************************************************************************)
InShadow(rows, name) == \E i \in 1..Len(rows) : rows[i] = name

C12_TwoStepDelete ==
    [][/\ shadow' # shadow => \E p \in Procs : pc[p] = "delShadow"
       /\ \A p \in Procs :
            op[p] = "DelUser" /\ pc'[p] # pc[p] =>
              /\ pc[p] = "delUser" /\ pc'[p] = "done"
                    => err'[p] # Nil /\ shadow' = shadow
              /\ pc[p] = "delUser" /\ pc'[p] = "delShadow"
                    => ~HasName(passwd', arg[p].Name) /\ shadow' = shadow
              /\ pc[p] = "delShadow" /\ err'[p] = Nil
                    => /\ ~HasName(passwd', arg[p].Name)
                       /\ ~InShadow(shadow', arg[p].Name)
                       /\ LookupUser(passwd', arg[p].Name).err = ErrNoFound
              /\ pc[p] = "delShadow" /\ err'[p] # Nil
                    => /\ passwd' = passwd
                       /\ ~HasName(passwd', arg[p].Name)
                       /\ shadow' = shadow]_vars

\* The account row was deleted and the deletion of the credential row failed.
C12_Witness ==
    /\ op[1] = "DelUser" /\ pc[1] = "done"
    /\ err[1] = ErrIO
    /\ HasName(old[1], arg[1].Name)
    /\ ~HasName(passwd, arg[1].Name)
    /\ InShadow(shadow, arg[1].Name)

(***************************************************************************)
(* C13.  Every row of the account file has exactly seven colon-separated   *)
(* fields and ends with a newline, so that parseUser reads it without      *)
(* ErrRow, whatever record Add accepted.                                   *)
(***************************************************************************)
C13_SevenFields ==
    /\ passwd # << >> => passwd[Len(passwd)] = "\n"
    /\ \A i \in 1..Len(RowFields(passwd)) :
           /\ Len(RowFields(passwd)[i]) = 7
           /\ parseUser(JoinColon(RowFields(passwd)[i])).err # ErrRow

(***************************************************************************)
(* C14.  One caller.  An Add that requests an identifier (UID < 0) is      *)
(* given the lowest one of its class's range that no row of the account    *)
(* file has, a function of the file and the class alone, and then appends  *)
(* exactly one row, which carries that identifier; when every identifier   *)
(* of the range is the UID of a row, it returns IdRangeError and the file  *)
(* is as it was.                                                           *)
(***************************************************************************)
RangeFull(file, isSystem) == \A i \in ClassRange(isSystem) : HasUID(file, i)

LowestFree(file, isSystem) ==
    CHOOSE i \in ClassRange(isSystem) :
        /\ ~HasUID(file, i)
        /\ \A j \in ClassRange(isSystem) : j < i => HasUID(file, j)

C14_LowestFree ==
    [][\A p \in Procs :
         /\ pc[p] = "resolve" /\ u[p].UID < 0 /\ pc'[p] # "resolve" =>
              IF RangeFull(passwd, u[p].IsOfSystem)
              THEN /\ pc'[p] = "done"
                   /\ err'[p].e = "IdRangeError"
                   /\ passwd' = passwd
              ELSE /\ pc'[p] = "write"
                   /\ uid'[p] = LowestFree(passwd, u[p].IsOfSystem)
                   /\ u'[p].UID = uid'[p]
                   /\ passwd' = passwd
         /\ pc[p] = "write" /\ arg[p].UID < 0 /\ passwd' # passwd =>
              /\ passwd' = passwd \o UserString(u'[p])
              /\ u'[p].UID = uid[p]
              /\ \E rows \in {RowFields(passwd')} :
                     /\ Len(rows) = Len(RowFields(passwd)) + 1
                     /\ rows[Len(rows)][3] = Itoa(uid[p])
      ]_vars

\* The first identifier of the range was taken, the second was given; and the
\* call after it found the range exhausted.
C14_Witness ==
    /\ AddDone(1) /\ calls[1] = 2
    /\ arg[1].UID < 0 /\ ~arg[1].IsOfSystem
    /\ err[1].e = "IdRangeError"
    /\ HasUID(passwd, UID_MIN) /\ HasUID(passwd, UID_MAX)
    /\ Len(RowFields(passwd)) = 3

(***************************************************************************)
(* C15.  A lookup that examines a row with fewer than seven fields returns *)
(* ErrRow, and one that examines a row whose UID (GID) field is not an     *)
(* integer in base 10 returns the fieldError of that field, whichever      *)
(* field was asked for: the row is not skipped and the lookup does not end *)
(* in a run-time panic.                                                    *)
(***************************************************************************)
\* The row is not one a lookup may read.
BadRow(fields) ==
    \/ Len(fields) < 7
    \/ ~IsBase10Integer(fields[3])
    \/ ~IsBase10Integer(fields[4])

\* The scan reaches row b: it is not limited, or fewer than n of the rows
\* before b match.
Examined(in, b) ==
    \/ in.n < 0
    \/ Cardinality({ j \in 1..(b - 1) :
            UserLookUp(JoinColon(in.rows[j]), in.field, in.value).kind = "match" })
           < in.n

C15_StructuredErrors ==
    fnOp = "lookupRaw" /\ fnDone =>
        \A b \in 1..Len(fnIn.rows) :
            ( /\ BadRow(fnIn.rows[b])
              /\ \A j \in 1..(b - 1) : ~BadRow(fnIn.rows[j])
              /\ Examined(fnIn, b) )
            => IF Len(fnIn.rows[b]) < 7 THEN fnOut.err = ErrRow
               ELSE IF ~IsBase10Integer(fnIn.rows[b][3])
               THEN fnOut.err = fieldError(_USER_FILE, JoinColon(fnIn.rows[b]), "UID")
               ELSE fnOut.err = fieldError(_USER_FILE, JoinColon(fnIn.rows[b]), "GID")

(***************************************************************************)
(* C16.  The row matcher on a well-formed row: the row matches a mask      *)
(* exactly when the field of one of the mask's bits equals the query       *)
(* value, or the mask has the ALL bit; this for every mask of one or       *)
(* several bits and for text and integer query values.  A row that matches *)
(* is returned with its seven fields; one that does not gives nil.         *)
(***************************************************************************)
\* Some field the mask selects equals the query value, or the mask has U_ALL.
Selects(r, mask, value) ==
    \/ HasBit(mask, U_ALL)
    \/ /\ value.t = "str"
       /\ \/ HasBit(mask, U_NAME) /\ r.Name = value.s
          \/ HasBit(mask, U_PASSWD) /\ r.password = value.s
          \/ HasBit(mask, U_GECOS) /\ r.Gecos = value.s
          \/ HasBit(mask, U_DIR) /\ r.Dir = value.s
          \/ HasBit(mask, U_SHELL) /\ r.Shell = value.s
    \/ /\ value.t = "int"
       /\ \/ HasBit(mask, U_UID) /\ r.UID = value.i
          \/ HasBit(mask, U_GID) /\ r.GID = value.i

C16_MaskSemantics ==
    fnOp = "match" /\ fnDone =>
        fnOut = IF Selects(fnIn.rec, fnIn.field, fnIn.value)
                THEN Match(fnIn.rec)
                ELSE NoMatch

(***************************************************************************)
(* C17.  The end of Add: the write leaves its error, or nil, in err; after *)
(* the close Add returns the write's error when the write failed, whether  *)
(* or not the close failed too, the close's error when only the close      *)
(* failed, and nil when neither did.                                       *)
(***************************************************************************)
C17_WriteErrorKept ==
    [][\A p \in Procs :
         /\ pc[p] = "write" /\ pc'[p] = "close" =>
              err'[p] = IF faults' > faults THEN ErrWrite ELSE Nil
         /\ pc[p] = "close" /\ pc'[p] = "done" =>
              err'[p] = IF err[p] = ErrWrite THEN ErrWrite
                        ELSE IF faults' > faults THEN ErrClose
                        ELSE Nil
      ]_vars

\* The write and the close of one call both failed.
C17_Witness ==
    /\ AddDone(1) /\ calls[1] = 1
    /\ faults = 2
    /\ err[1] = ErrWrite

(***************************************************************************)
(* C18.  One caller.  An Add that returns an error of a check, of a lookup *)
(* or of the allocation leaves the account file as it was when the call    *)
(* began.  An Add that returns nil has changed it only by appending the    *)
(* text of its record after the rows it held, which are as they were and   *)
(* in the same order.                                                      *)
(***************************************************************************)
C18_Frame ==
    \A p \in Procs :
        AddDone(p) =>
            IF err[p] = Nil
            THEN /\ passwd = old[p] \o UserString(u[p])
                 /\ SubSeq(passwd, 1, Len(old[p])) = old[p]
                 /\ Len(RowFields(passwd)) = Len(RowFields(old[p])) + 1
                 /\ \A i \in 1..Len(RowFields(old[p])) :
                        RowFields(passwd)[i] = RowFields(old[p])[i]
            ELSE err[p] \notin {ErrWrite, ErrClose} => passwd = old[p]

\* A second row was appended after the two the file held.
C18_Witness ==
    /\ AddDone(1) /\ calls[1] = 2
    /\ err[1] = Nil
    /\ Len(RowFields(old[1])) = 2
    /\ Len(RowFields(passwd)) = 3

(***************************************************************************)
(* C19.  Every call of Add returns: a caller that keeps running is never   *)
(* held forever at the opening of the account file, be it by its own       *)
(* lookup while it holds the file or by the lock of an earlier Add that    *)
(* returned an error.                                                      *)
(***************************************************************************)
C19_AddReturns ==
    \A p \in Procs : (op[p] = "Add" /\ pc[p] # "done") ~> (pc[p] = "done")

(***************************************************************************)
(* C20.  One caller.  Add asks the allocator for an identifier exactly     *)
(* when the record's UID is negative, and then for one of the range of the *)
(* record's class.  A record with UID >= 0, such as the one NewUser builds *)
(* (UID 0), never reaches the allocator: Add returns IdUsedError(UID) if a *)
(* row has that UID and otherwise writes the row with it.  No row of the   *)
(* account file has a negative UID.                                        *)
(***************************************************************************)
C20_AllocatorOnlyWhenNegative ==
    [][/\ passwd' # passwd =>
            \E rows \in {RowFields(passwd')} :
                \A i \in 1..Len(rows) : Atoi(rows[i][3]).val >= 0
       /\ \A p \in Procs :
            /\ pc[p] = "resolve" /\ pc'[p] # "resolve" =>
                 IF arg[p].UID < 0
                 THEN \/ /\ pc'[p] = "write"
                         /\ uid'[p] \in ClassRange(arg[p].IsOfSystem)
                         /\ u'[p].UID = uid'[p]
                      \/ pc'[p] = "done" /\ err'[p].e = "IdRangeError"
                 ELSE /\ pc'[p] = "checkUID" \/ (pc'[p] = "done" /\ err'[p] = ErrIO)
                      /\ u'[p] = u[p] /\ uid'[p] = 0
            /\ pc[p] = "checkUID" /\ faults' = faults =>
                 IF HasUID(passwd, arg[p].UID)
                 THEN pc'[p] = "done" /\ err'[p] = IdUsedError(arg[p].UID)
                 ELSE pc'[p] = "write" /\ u'[p].UID = arg[p].UID
            /\ pc[p] = "write" /\ passwd' # passwd =>
                 /\ \E rows \in {RowFields(passwd')} :
                        rows[Len(rows)][3] = Itoa(u'[p].UID)
                 /\ arg[p].UID >= 0 => u'[p].UID = arg[p].UID
      ]_vars

\* The record NewUser built was written with UID 0 to a file that had no row
\* with UID 0.
C20_Witness ==
    /\ AddDone(1) /\ err[1] = Nil
    /\ arg[1] = NewUser(NameOf(2))
    /\ ~HasUID(old[1], 0)
    /\ HasUID(passwd, 0)

====
